---- MODULE Spec2Model ----
(***************************************************************************)
(* A model of the relational document store (haystack/database/sql.py)     *)
(* and of the answer fusion of the readers (haystack/reader/farm.py,       *)
(* haystack/reader/transformers.py).                                       *)
(*                                                                         *)
(* Python values are modelled as follows: a dict is a function whose       *)
(* DOMAIN is its key set, a list is a sequence, an Optional row is a set   *)
(* of at most one row (None is the empty set), None is the string "None"   *)
(* where a value is returned and the id 0 where a primary key is expected  *)
(* (a row that was never flushed has id None).                             *)
(* Input records are values: no two records share a mutable dict.          *)
(***************************************************************************)
EXTENDS Integers, Sequences, FiniteSets, TLC

VARIABLES
    document,      \* committed rows of table "document"
    tag,           \* committed rows of table "tag"
    document_tag,  \* committed rows of table "document_tag"
    flushed,       \* rows INSERTed in the open transaction of self.session
    pending,       \* rows added to self.session and not flushed (session.new)
    calls,         \* history: one entry per write_documents call that began
    pc,            \* per thread: position inside write_documents
    todo,          \* per thread: the records write_documents still has to loop over
    cur,           \* per thread: the index in calls of the running call
    result,        \* outcome of the last completed operation of the store
    before,        \* history: the tables and the session when the last step began
    reader,        \* the fields FARMReader.__init__ sets
    query,         \* arguments and adapter output of the last predict call
    prediction,    \* outcome of the last predict call
    history        \* history: every predict call with its outcome, in call order

vars == <<document, tag, document_tag, flushed, pending, calls, pc, todo, cur, result,
          before, reader, query, prediction, history>>

storeVars == <<document, tag, document_tag, flushed, pending>>

readerVars == <<reader, query, prediction, history>>

----------------------------------------------------------------------------
(* Bounds of the model *)

MaxCalls == 2

NThreads == 2

Threads == 1..NThreads

----------------------------------------------------------------------------
(* Python dict helpers *)

EmptyDict == [k \in {} |-> "None"]

Put(d, k, v) == [x \in (DOMAIN d) \cup {k} |-> IF x = k THEN v ELSE d[x]]

Max(S) == CHOOSE m \in S : \A x \in S : x <= m

Min(S) == CHOOSE m \in S : \A x \in S : m <= x

RECURSIVE SortedSeq(_)
SortedSeq(S) == IF S = {} THEN <<>> ELSE <<Min(S)>> \o SortedSeq(S \ {Min(S)})

SeqToSet(s) == {s[i] : i \in DOMAIN s}

----------------------------------------------------------------------------
(* Inputs: the records callers hand to write_documents, the tag mappings   *)
(* they hand to get_document_ids_by_tags, and the databases the url of the *)
(* constructor may point at.                                               *)

RecPlain == [text |-> "x"]

RecAuthor == [text |-> "x", author |-> "a"]

RecTagged == [text |-> "y", tags |-> [a |-> "a"]]

RecFull == [text |-> "y", meta |-> [url |-> "u", author |-> "b"], author |-> "a",
            tags |-> [a |-> "x"]]

RecNoText == [meta |-> [url |-> "u"]]

Batches == { <<>>, <<RecAuthor, RecTagged>>, <<RecFull>>, <<RecPlain, RecNoText>>,
             <<RecNoText, RecAuthor>> }

TagNames == {"a", "b"}

TagValues == {"a", "x"}

TagQueries == UNION { [S -> TagValues] : S \in SUBSET TagNames }

OldRow(i, t) == [id |-> i, text |-> t, meta_data |-> EmptyDict, call |-> 0, rec |-> [text |-> t]]

\* an empty database (the default in-memory "sqlite://"), and two existing ones
Databases ==
    { [document |-> {}, tag |-> {}, document_tag |-> {}],
      [document |-> {OldRow(1, "x"), OldRow(2, "y")},
       tag |-> {[id |-> 1, name |-> "a", value |-> "x"], [id |-> 2, name |-> "b", value |-> "a"]},
       document_tag |-> {[document_id |-> 1, tag_id |-> 1], [document_id |-> 2, tag_id |-> 1],
                         [document_id |-> 2, tag_id |-> 2]}],
      [document |-> {OldRow(1, "y"), OldRow(3, "x")},
       tag |-> {[id |-> 1, name |-> "x", value |-> "a"], [id |-> 2, name |-> "a", value |-> "a"]},
       document_tag |-> {[document_id |-> 1, tag_id |-> 1], [document_id |-> 1, tag_id |-> 2],
                         [document_id |-> 4, tag_id |-> 1]}] }

----------------------------------------------------------------------------
(* The session *)

\* what a statement executed in the session's transaction sees of "document"
Visible == document \cup flushed

NextIdByCount(rows) == Cardinality(rows) + 1

\* the INTEGER PRIMARY KEY the database gives the next inserted row
NextId(rows) == IF rows = {} THEN 1 ELSE Max({r.id : r \in rows}) + 1

\* flush: INSERT the pending rows, in the order they were added
RECURSIVE Flush(_, _)
Flush(news, rows) ==
    IF news = <<>> THEN rows
    ELSE Flush(Tail(news), rows \cup {[Head(news) EXCEPT !.id = NextId(rows)]})

\* the rows of the open transaction after an autoflush
Autoflushed == Flush(pending, Visible) \ document

----------------------------------------------------------------------------
(* SQLDocumentStore.write_documents *)

ExcludedKeysWithoutTags == {"text", "meta"}

ExcludedKeys == {"text", "meta", "tags"}

\* for k, v in doc.items(): if k not in ["text", "meta", "tags"]: doc["meta"][k] = v
RECURSIVE FoldExtras(_, _, _)
FoldExtras(meta, doc, keys) ==
    IF keys = {} THEN meta
    ELSE LET k == CHOOSE x \in keys : TRUE
         IN  FoldExtras(Put(meta, k, doc[k]), doc, keys \ {k})

\* doc["meta"] when the row is built
MetaOf(doc) ==
    LET meta == IF "meta" \in DOMAIN doc THEN doc["meta"] ELSE EmptyDict
    IN  FoldExtras(meta, doc, (DOMAIN doc) \ ExcludedKeys)

\* doc["text"] raises KeyError when the record has no text
HasText(doc) == "text" \in DOMAIN doc

\* row = Document(text=doc["text"], meta_data=doc.get("meta", {})); c and doc are history
NewRow(doc, c) ==
    [id |-> 0, text |-> doc["text"], meta_data |-> MetaOf(doc), call |-> c, rec |-> doc]

\* the for loop: every record before the first one without text is added to the session
RECURSIVE WriteLoop(_, _, _)
WriteLoop(docs, news, c) ==
    IF docs = <<>> THEN [pending |-> news, raised |-> FALSE]
    ELSE IF ~HasText(Head(docs)) THEN [pending |-> news, raised |-> TRUE]
    ELSE WriteLoop(Tail(docs), Append(news, NewRow(Head(docs), c)), c)

\* self.session.commit(): flush what the session holds and commit the transaction
Committed(news) == Flush(news, Visible)

\* the outcome of a call: args and value are kept under the name of the
\* operation (an exception under "raise"), so that outcomes of different
\* operations, whose values are of different types, can be compared
Returned(op, args, value) ==
    [op |-> op, args |-> (op :> args), kind |-> "return", value |-> (op :> value)]

Raised(op, args, exc) ==
    [op |-> op, args |-> (op :> args), kind |-> "raise", value |-> ("raise" :> exc)]

\* the arguments of the call
Args(r) == r.args[r.op]

\* the value returned, or the name of the exception raised
Val(r) == r.value[IF r.kind = "raise" THEN "raise" ELSE r.op]

WriteDocuments(batch) ==
    /\ Len(calls) < MaxCalls
    /\ LET c   == Len(calls) + 1
           out == WriteLoop(batch, pending, c)
       IN  /\ calls' = Append(calls, [batch |-> batch, failed |-> out.raised])
           /\ IF out.raised
              THEN /\ pending' = out.pending
                   /\ UNCHANGED <<document, flushed>>
                   /\ result' = Raised("write_documents", batch, "KeyError")
              ELSE /\ document' = Committed(out.pending)
                   /\ flushed' = {}
                   /\ pending' = <<>>
                   /\ result' = Returned("write_documents", batch, "None")
    /\ before' = storeVars
    /\ UNCHANGED <<tag, document_tag, pc, todo, cur, readerVars>>

----------------------------------------------------------------------------
(* write_documents, statement by statement, for threads sharing the store *)

ConcBegin(t, batch) ==
    /\ pc[t] = "idle"
    /\ Len(calls) < MaxCalls
    /\ calls' = Append(calls, [batch |-> batch, failed |-> FALSE])
    /\ cur' = [cur EXCEPT ![t] = Len(calls) + 1]
    /\ todo' = [todo EXCEPT ![t] = batch]
    /\ pc' = [pc EXCEPT ![t] = "loop"]
    /\ before' = storeVars
    /\ UNCHANGED <<storeVars, result, readerVars>>

\* one iteration of the for loop
ConcLoop(t) ==
    /\ pc[t] = "loop"
    /\ todo[t] # <<>>
    /\ IF HasText(Head(todo[t]))
       THEN /\ pending' = Append(pending, NewRow(Head(todo[t]), cur[t]))
            /\ todo' = [todo EXCEPT ![t] = Tail(todo[t])]
            /\ UNCHANGED <<pc, calls, result>>
       ELSE /\ pc' = [pc EXCEPT ![t] = "idle"]
            /\ todo' = [todo EXCEPT ![t] = <<>>]
            /\ calls' = [calls EXCEPT ![cur[t]].failed = TRUE]
            /\ result' = Raised("write_documents", calls[cur[t]].batch, "KeyError")
            /\ UNCHANGED pending
    /\ before' = storeVars
    /\ UNCHANGED <<document, tag, document_tag, flushed, cur, readerVars>>

\* self.session.commit() on the session all threads share
ConcCommit(t) ==
    /\ pc[t] = "loop"
    /\ todo[t] = <<>>
    /\ document' = Committed(pending)
    /\ flushed' = {}
    /\ pending' = <<>>
    /\ pc' = [pc EXCEPT ![t] = "idle"]
    /\ result' = Returned("write_documents", calls[cur[t]].batch, "None")
    /\ before' = storeVars
    /\ UNCHANGED <<tag, document_tag, calls, todo, cur, readerVars>>

----------------------------------------------------------------------------
(* The reading operations *)

\* row.tags: the Tag rows associated with the document through document_tag
TagsOf(id) ==
    { [name |-> t.name, value |-> t.value] :
        t \in { u \in tag : \E dt \in document_tag :
                                dt.document_id = id /\ dt.tag_id = u.id } }

\* _convert_sql_row_to_document: row.id of None raises AttributeError
ConvertSqlRowToDocument(op, args, rowOpt) ==
    IF rowOpt = {} THEN Raised(op, args, "AttributeError")
    ELSE LET row == CHOOSE r \in rowOpt : TRUE
         IN  Returned(op, args, [id |-> row.id, text |-> row.text,
                                 meta |-> row.meta_data, tags |-> TagsOf(row.id)])

\* self.session.query(Document).get(id) on the rows of the flushed session
QueryGetIn(rows, id) == { r \in rows : r.id = id }

\* self.session.query(Document).get(id), after the query's autoflush
QueryGet(id) == QueryGetIn(Flush(pending, Visible), id)

\* get_document_by_id on the rows of the flushed session
GetDocumentByIdIn(rows, id) ==
    LET rowOpt == QueryGetIn(rows, id)
    IN  ConvertSqlRowToDocument("get_document_by_id", id, rowOpt)

GetDocumentByIdResult(id) == GetDocumentByIdIn(Flush(pending, Visible), id)

\* the ids callers ask for: every id in use and the next free one
QueryIds == 1..NextId(Flush(pending, Visible))

GetDocumentById(id) ==
    /\ result' = GetDocumentByIdResult(id)
    /\ flushed' = Autoflushed
    /\ pending' = <<>>
    /\ before' = storeVars
    /\ UNCHANGED <<document, tag, document_tag, calls, pc, todo, cur, readerVars>>

GetAllDocumentsResult ==
    LET rows == Flush(pending, Visible)
        ids  == SortedSeq({r.id : r \in rows})
    IN  Returned("get_all_documents", "None",
                 [i \in DOMAIN ids |->
                     Val(ConvertSqlRowToDocument("get_all_documents", "None",
                                                 {r \in rows : r.id = ids[i]}))])

GetAllDocuments ==
    /\ result' = GetAllDocumentsResult
    /\ flushed' = Autoflushed
    /\ pending' = <<>>
    /\ before' = storeVars
    /\ UNCHANGED <<document, tag, document_tag, calls, pc, todo, cur, readerVars>>

GetDocumentCountResult ==
    Returned("get_document_count", "None", Cardinality(Flush(pending, Visible)))

GetDocumentCount ==
    /\ result' = GetDocumentCountResult
    /\ flushed' = Autoflushed
    /\ pending' = <<>>
    /\ before' = storeVars
    /\ UNCHANGED <<document, tag, document_tag, calls, pc, todo, cur, readerVars>>

\* the rows of document_tag JOIN tag ON t.id = dt.tag_id
JoinedTags == { jt \in document_tag \X tag : jt[2].id = jt[1].tag_id }

\* SUM(CASE WHEN t.value='{tag}' THEN 1 ELSE 0 END) over the group of one document_id
SumCase(docId, tagKey) ==
    Cardinality({ jt \in JoinedTags : jt[1].document_id = docId /\ jt[2].value = tagKey })

\* for tag in tags: one filter per key of the mapping, joined with AND
Having(docId, tags) == \A tagKey \in DOMAIN tags : SumCase(docId, tagKey) > 0

\* SELECT id FROM document WHERE id in (SELECT dt.document_id ... GROUP BY ... HAVING ...)
SelectIdsByTags(tags) ==
    { r.id : r \in { d \in Visible :
                       \E jt \in JoinedTags : jt[1].document_id = d.id /\ Having(d.id, tags) } }

GetDocumentIdsByTagsUnguarded(tags) ==
    Returned("get_document_ids_by_tags", tags, SortedSeq(SelectIdsByTags(tags)))

GetDocumentIdsByTagsResult(tags) ==
    IF tags = EmptyDict
    THEN Raised("get_document_ids_by_tags", tags, "Exception")
    ELSE Returned("get_document_ids_by_tags", tags, SortedSeq(SelectIdsByTags(tags)))

GetDocumentIdsByTags(tags) ==
    /\ result' = GetDocumentIdsByTagsResult(tags)
    /\ before' = storeVars
    /\ UNCHANGED <<storeVars, calls, pc, todo, cur, readerVars>>

QueryByEmbeddingReturnsEmpty(query_emb, filters, top_k, index) ==
    Returned("query_by_embedding", <<query_emb, filters, top_k, index>>, <<>>)

QueryByEmbeddingResult(query_emb, filters, top_k, index) ==
    Raised("query_by_embedding", <<query_emb, filters, top_k, index>>, "NotImplementedError")

QueryByEmbedding(query_emb, filters, top_k, index) ==
    /\ result' = QueryByEmbeddingResult(query_emb, filters, top_k, index)
    /\ before' = storeVars
    /\ UNCHANGED <<storeVars, calls, pc, todo, cur, readerVars>>

\* the arguments callers hand to query_by_embedding
EmbeddingQueries ==
    { [query_emb |-> <<>>, filters |-> EmptyDict, top_k |-> 10, index |-> "None"],
      [query_emb |-> <<1, 0>>, filters |-> [a |-> "x"], top_k |-> 0, index |-> "document"] }

----------------------------------------------------------------------------
(* FARMReader: the adapter output predict works on.  Scores and gaps are    *)
(* integers; an Optional integer is a set of at most one integer.           *)

MaxDocs == 2

MaxPredicts == 3

Span(answer, score, start, end, window_start) ==
    [answer |-> answer, score |-> score, offset_answer_start |-> start,
     offset_answer_end |-> end, offset_context_window_start |-> window_start,
     context_window |-> "ctx"]

\* the candidate the adapter emits for "no answer in this document"
NoAnswer(score) ==
    [answer |-> "no_answer", score |-> score, offset_answer_start |-> 0,
     offset_answer_end |-> 0, offset_context_window_start |-> 0, context_window |-> ""]

CandidateLists ==
    { <<NoAnswer(5)>>,
      <<Span("A", 9, 4, 6, 2), NoAnswer(8)>>,
      <<NoAnswer(8), Span("B", 7, 2, 5, 0)>>,
      <<Span("C", -3, 1, 2, 0), Span("D", -5, 3, 4, 1)>>,
      <<Span("A", 9, 4, 6, 2), Span("B", 7, 2, 5, 0), Span("E", 7, 0, 0, 0)>>,
      <<Span("no_answer", 6, 3, 5, 1), Span("S", 296, 1, 3, 0), Span("T", 294, 2, 3, 0)>> }

Gaps == {-3, -1, 2}

DocIds == <<"d1", "d2", "d3", "d4">>

TopKs == { {}, {0}, {1}, {3} }

TopKPerCandidates == {1, 2}

NoAnsBoosts == { {}, {0} }

\* pred.id, pred.no_answer_gap, pred.prediction of one document
AdapterOutputs(n_best) ==
    { [no_answer_gap |-> g, prediction |-> l] :
        g \in Gaps, l \in { x \in CandidateLists : Len(x) <= n_best } }

----------------------------------------------------------------------------
(* FARMReader.__init__ and FARMReader.predict *)

\* the integer scores from which float(expit(score / 8)) is 1.0 in double precision
ExpitSaturation == 294

\* float(expit(np.asarray([score]) / 8)), up to an order-preserving renaming of
\* the floats: strictly increasing in score, and 1.0 from the saturation on.
\* Exact for integer scores below 275 and from 294 on (between them some
\* neighbouring integers already round to the same float); the scores of the
\* model stay out of that range.
Expit(score) == IF score >= ExpitSaturation THEN ExpitSaturation ELSE score

\* a constructor that takes a no_ans_boost of 0 for an absent one
FARMReaderInitUnlessZero(no_ans_boost, top_k_per_candidate) ==
    [return_no_answers |-> no_ans_boost \notin {{}, {0}},
     no_ans_boost |-> IF no_ans_boost = {} THEN 0 ELSE CHOOSE b \in no_ans_boost : TRUE,
     top_k_per_candidate |-> top_k_per_candidate,
     n_best |-> top_k_per_candidate + 1]

FARMReaderInit(no_ans_boost, top_k_per_candidate) ==
    [return_no_answers |-> no_ans_boost # {},
     no_ans_boost |-> IF no_ans_boost = {} THEN 0 ELSE CHOOSE b \in no_ans_boost : TRUE,
     top_k_per_candidate |-> top_k_per_candidate,
     n_best |-> top_k_per_candidate + 1]

\* _check_no_answer: the offsets are only looked at to log an error
CheckNoAnswer(c) == c.answer = "no_answer"

\* the dict predict builds for a candidate that is kept
FormatAnswer(ans, id) ==
    [answer |-> ans.answer,
     score |-> ans.score,
     probability |-> Expit(ans.score),
     context |-> ans.context_window,
     offset_start |-> ans.offset_answer_start - ans.offset_context_window_start,
     offset_end |-> ans.offset_answer_end - ans.offset_context_window_start,
     offset_start_in_doc |-> ans.offset_answer_start,
     offset_end_in_doc |-> ans.offset_answer_end,
     document_id |-> id]

\* a slice that keeps one entry more
TakeOneMore(lst, n) == SubSeq(lst, 1, IF n + 1 < Len(lst) THEN n + 1 ELSE Len(lst))

\* lst[:n] for n >= 0
Take(lst, n) == SubSeq(lst, 1, IF n < Len(lst) THEN n ELSE Len(lst))

\* the inner loop over pred.prediction: st = [answers_per_document, best_score_answer]
RECURSIVE PerDocument(_, _, _)
PerDocument(cands, id, st) ==
    IF cands = <<>> THEN st
    ELSE LET ans == Head(cands)
         IN  IF CheckNoAnswer(ans)
             THEN PerDocument(Tail(cands), id, st)
             ELSE PerDocument(Tail(cands), id,
                     [answers_per_document |->
                          Append(st.answers_per_document, FormatAnswer(ans, id)),
                      best_score_answer |->
                          IF ans.score > st.best_score_answer
                          THEN ans.score ELSE st.best_score_answer])

\* the outer loop over zip(predictions, inputs): st = [answers, no_ans_gaps, best_score_answer]
RECURSIVE Assemble(_, _, _)
Assemble(preds, top_k_per_candidate, st) ==
    IF preds = <<>> THEN st
    ELSE LET pred == Head(preds)
             doc  == PerDocument(pred.prediction, pred.id,
                                 [answers_per_document |-> <<>>,
                                  best_score_answer |-> st.best_score_answer])
         IN  Assemble(Tail(preds), top_k_per_candidate,
                 [answers |-> st.answers \o Take(doc.answers_per_document, top_k_per_candidate),
                  no_ans_gaps |-> Append(st.no_ans_gaps, pred.no_answer_gap),
                  best_score_answer |-> doc.best_score_answer])

FirstNoAnsGap(no_ans_gaps) == no_ans_gaps[1]

\* np.max(no_ans_gaps)
MaxNoAnsGap(no_ans_gaps) == Max(SeqToSet(no_ans_gaps))

\* _calc_no_answer, for a non-empty no_ans_gaps
CalcNoAnswer(no_ans_gaps, best_score_answer) ==
    LET max_no_ans_gap == MaxNoAnsGap(no_ans_gaps)
        no_ans_score ==
            IF Cardinality({i \in DOMAIN no_ans_gaps : no_ans_gaps[i] < 0}) = Len(no_ans_gaps)
            THEN best_score_answer - max_no_ans_gap
            ELSE best_score_answer - max_no_ans_gap
    IN  [no_ans_prediction |->
            [answer |-> "None", score |-> no_ans_score, probability |-> Expit(no_ans_score),
             context |-> "None", offset_start |-> 0, offset_end |-> 0,
             document_id |-> "None"],
         max_no_ans_gap |-> max_no_ans_gap]

\* an insertion that puts an entry in front of the entries of equal probability
RECURSIVE InsertBeforeEqual(_, _)
InsertBeforeEqual(sorted, x) ==
    IF sorted = <<>> THEN <<x>>
    ELSE IF Head(sorted).probability > x.probability
         THEN <<Head(sorted)>> \o InsertBeforeEqual(Tail(sorted), x)
         ELSE <<x>> \o sorted

\* sorted(answers, key=lambda k: k["probability"], reverse=True): stable
RECURSIVE InsertByProbability(_, _)
InsertByProbability(sorted, x) ==
    IF sorted = <<>> THEN <<x>>
    ELSE IF Head(sorted).probability >= x.probability
         THEN <<Head(sorted)>> \o InsertByProbability(Tail(sorted), x)
         ELSE <<x>> \o sorted

\* a sort that leaves the entries in the order they were appended
AppendedOrder(answers, sorted) == sorted \o answers

RECURSIVE SortedByProbability(_, _)
SortedByProbability(answers, sorted) ==
    IF answers = <<>> THEN sorted
    ELSE SortedByProbability(Tail(answers), InsertByProbability(sorted, Head(answers)))

\* a truncation that takes top_k = 0 for an unspecified top_k
TruncateUnlessZero(answers, top_k) ==
    IF top_k \in {{}, {0}} THEN answers ELSE Take(answers, CHOOSE k \in top_k : TRUE)

\* answers[:top_k] for top_k None or >= 0
Truncate(answers, top_k) ==
    IF top_k = {} THEN answers ELSE Take(answers, CHOOSE k \in top_k : TRUE)

\* the local variables of predict before its loop
BeforeLoop == [answers |-> <<>>, no_ans_gaps |-> <<>>, best_score_answer |-> 0]

\* predict from the call of _calc_no_answer on, for a non-empty no_ans_gaps;
\* "internal" keeps the local variables for the properties below
PredictReturn(rd, question, st, top_k) ==
    LET na   == CalcNoAnswer(st.no_ans_gaps, st.best_score_answer)
        pool == IF rd.return_no_answers
                THEN Append(st.answers, na.no_ans_prediction)
                ELSE st.answers
    IN  [kind |-> "return",
         value |-> [question |-> question,
                    no_ans_gap |-> na.max_no_ans_gap,
                    answers |-> Truncate(SortedByProbability(pool, <<>>), top_k)],
         internal |-> [best_score_answer |-> st.best_score_answer,
                       no_ans_prediction |-> na.no_ans_prediction,
                       pool |-> pool]]

\* a predict that answers an empty document list with an empty result
PredictEmptyResult(rd, question, preds, top_k) ==
    LET st == Assemble(preds, rd.top_k_per_candidate, BeforeLoop)
    IN  IF st.no_ans_gaps = <<>>
        THEN [kind |-> "return",
              value |-> [question |-> question, no_ans_gap |-> 0, answers |-> <<>>],
              internal |-> [best_score_answer |-> 0, pool |-> <<>>]]
        ELSE PredictReturn(rd, question, st, top_k)

\* predict: np.max of an empty array raises ValueError
PredictResult(rd, question, preds, top_k) ==
    LET st == Assemble(preds, rd.top_k_per_candidate, BeforeLoop)
    IN  IF st.no_ans_gaps = <<>>
        THEN [kind |-> "raise", value |-> "ValueError"]
        ELSE PredictReturn(rd, question, st, top_k)

\* no predict call returned or raised yet
NotCalled == [kind |-> "none"]

\* a predict that switches the no-answer entry off for the calls after it
ReaderWithoutNoAnswers(rd) == [rd EXCEPT !.return_no_answers = FALSE]

\* what a predict call leaves in the reader: it assigns no attribute of self
ReaderAfterPredict(rd) == rd

Predict ==
    /\ prediction = NotCalled
    /\ prediction' = PredictResult(reader, query.question, query.predictions, query.top_k)
    /\ reader' = ReaderAfterPredict(reader)
    /\ history' = Append(history, [query |-> query, prediction |-> prediction'])
    /\ UNCHANGED <<storeVars, calls, pc, todo, cur, result, before, query>>

\* one of several predict calls on the same reader
PredictCall(q) ==
    /\ Len(history) < MaxPredicts
    /\ query' = q
    /\ prediction' = PredictResult(reader, q.question, q.predictions, q.top_k)
    /\ reader' = ReaderAfterPredict(reader)
    /\ history' = Append(history, [query |-> q, prediction |-> prediction'])
    /\ UNCHANGED <<storeVars, calls, pc, todo, cur, result, before>>

\* the documents handed to predict, each with what the adapter returns for it
PredictInputs(n_best) ==
    UNION { { [i \in 1..n |-> [id |-> DocIds[i], no_answer_gap |-> f[i].no_answer_gap,
                               prediction |-> f[i].prediction]] :
                f \in [1..n -> AdapterOutputs(n_best)] } : n \in 0..MaxDocs }

----------------------------------------------------------------------------
(* TransformersReader: a text is a sequence of characters, a probability an *)
(* integer number of percent.                                               *)

TextShort == <<"a", "b", "c">>

TextLong == <<"a", "b", "c", "d", "e", "f">>

\* what the question-answering pipeline returns for one text: spans inside the
\* text, best score first; an empty answer text comes with the span 0..0
PipelineCandidates(text) ==
    { [answer |-> "A", start |-> 0, end |-> 1, score |-> 90],
      [answer |-> "",  start |-> 0, end |-> 0, score |-> 70],
      [answer |-> "B", start |-> Len(text) - 1, end |-> Len(text), score |-> 50] }

PipelineOutputs(text, topk) ==
    { l \in UNION { [1..n -> PipelineCandidates(text)] : n \in 1..Min({topk, 2}) } :
        \A i \in 1..(Len(l) - 1) : l[i].score > l[i + 1].score }

ContextWindowSizes == {-2, 0, 1, 30}

NBestPerPassages == {1, 2}

TransformersTopKs == { {}, {0}, {1} }

\* the documents handed to predict, each with what self.model returns for it
TransformersInputs(topk) ==
    LET docs == { [id |-> "d1", text |-> TextShort, meta |-> [name |-> "n"]],
                  [id |-> "d2", text |-> TextLong, meta |-> EmptyDict],
                  [id |-> "d3", text |-> TextShort, meta |-> EmptyDict] }
        withOutput(d) == { [id |-> d.id, text |-> d.text, meta |-> d.meta, predictions |-> o] :
                              o \in PipelineOutputs(d.text, topk) }
    IN  UNION { { s \in [1..n -> UNION {withOutput(d) : d \in docs}] :
                    \A i \in 1..n : s[i].id = DocIds[i] } : n \in 0..MaxDocs }

\* TransformersReader.__init__
TransformersReaderInit(context_window_size, n_best_per_passage) ==
    [context_window_size |-> context_window_size,
     n_best_per_passage |-> n_best_per_passage]

\* the position a slice bound i stands for in a sequence of length n
SliceBound(n, i) == IF i < 0 THEN Max({0, n + i}) ELSE Min({i, n})

\* text[a:b]
Slice(text, a, b) ==
    LET lo == SliceBound(Len(text), a)
        hi == SliceBound(Len(text), b)
    IN  IF lo >= hi THEN <<>> ELSE SubSeq(text, lo + 1, hi)

\* the dict predict builds for a prediction with a non-empty answer
TransformersAnswer(rd, doc, pred) ==
    LET context_start == Max({0, pred.start - rd.context_window_size})
        context_end   == Min({Len(doc.text), pred.end + rd.context_window_size})
    IN  [entry |-> [answer |-> pred.answer,
                    context |-> Slice(doc.text, context_start, context_end),
                    offset_start |-> pred.start,
                    offset_end |-> pred.end,
                    probability |-> pred.score,
                    score |-> "None",
                    document_id |-> doc.id,
                    meta |-> doc.meta],
         window |-> [context_start |-> context_start, context_end |-> context_end,
                     text |-> doc.text]]

\* the loop over the predictions of one document: st = [answers, windows]
RECURSIVE TransformersPerDocument(_, _, _, _)
TransformersPerDocument(rd, doc, preds, st) ==
    IF preds = <<>> THEN st
    ELSE LET pred == Head(preds)
             new  == TransformersAnswer(rd, doc, pred)
         IN  IF pred.answer # ""
             THEN TransformersPerDocument(rd, doc, Tail(preds),
                      [answers |-> Append(st.answers, new.entry),
                       windows |-> Append(st.windows, new.window)])
             ELSE TransformersPerDocument(rd, doc, Tail(preds), st)

\* the loop over the documents
RECURSIVE TransformersAssemble(_, _, _)
TransformersAssemble(rd, documents, st) ==
    IF documents = <<>> THEN st
    ELSE TransformersAssemble(rd, Tail(documents),
             TransformersPerDocument(rd, Head(documents), Head(documents).predictions, st))

\* predict; "internal" keeps the local variables for the properties below
TransformersPredictResult(rd, question, documents, top_k) ==
    LET st == TransformersAssemble(rd, documents, [answers |-> <<>>, windows |-> <<>>])
    IN  [kind |-> "return",
         value |-> [question |-> question,
                    answers |-> Truncate(SortedByProbability(st.answers, <<>>), top_k)],
         internal |-> [windows |-> st.windows, pool |-> st.answers]]

TransformersPredict ==
    /\ prediction = NotCalled
    /\ prediction' = TransformersPredictResult(reader, query.question, query.documents,
                                               query.top_k)
    /\ history' = Append(history, [query |-> query, prediction |-> prediction'])
    /\ UNCHANGED <<storeVars, calls, pc, todo, cur, result, before, reader, query>>

----------------------------------------------------------------------------
(* The specifications *)

NoResult == Returned("None", "None", "None")

Init ==
    /\ \E db \in Databases :
          /\ document = db.document
          /\ tag = db.tag
          /\ document_tag = db.document_tag
    /\ flushed = {}
    /\ pending = <<>>
    /\ calls = <<>>
    /\ pc = [t \in Threads |-> "idle"]
    /\ todo = [t \in Threads |-> <<>>]
    /\ cur = [t \in Threads |-> 0]
    /\ result = NoResult
    /\ before = storeVars
    /\ reader = FARMReaderInit({}, 3)
    /\ query = [question |-> "q", predictions |-> <<>>, top_k |-> {}]
    /\ prediction = NotCalled
    /\ history = <<>>

Reads ==
    \/ \E id \in QueryIds : GetDocumentById(id)
    \/ GetAllDocuments
    \/ GetDocumentCount
    \/ \E tags \in TagQueries : GetDocumentIdsByTags(tags)
    \/ \E q \in EmbeddingQueries : QueryByEmbedding(q.query_emb, q.filters, q.top_k, q.index)

Next ==
    \/ \E batch \in Batches : WriteDocuments(batch)
    \/ Reads

Spec == Init /\ [][Next]_vars

\* the batches the concurrent callers write
ConcBatches == { <<>>, <<RecAuthor, RecTagged>>, <<RecPlain, RecNoText>> }

NextConc ==
    \/ \E t \in Threads, batch \in ConcBatches : ConcBegin(t, batch)
    \/ \E t \in Threads : ConcLoop(t)
    \/ \E t \in Threads : ConcCommit(t)
    \/ GetAllDocuments
    \/ GetDocumentCount

SpecConc == Init /\ [][NextConc]_vars

InitReader ==
    /\ document = {}
    /\ tag = {}
    /\ document_tag = {}
    /\ flushed = {}
    /\ pending = <<>>
    /\ calls = <<>>
    /\ pc = [t \in Threads |-> "idle"]
    /\ todo = [t \in Threads |-> <<>>]
    /\ cur = [t \in Threads |-> 0]
    /\ result = NoResult
    /\ before = storeVars
    /\ \E b \in NoAnsBoosts, k \in TopKPerCandidates : reader = FARMReaderInit(b, k)
    /\ \E preds \in PredictInputs(reader.n_best), top_k \in TopKs :
          query = [question |-> "q", predictions |-> preds, top_k |-> top_k]
    /\ prediction = NotCalled
    /\ history = <<>>

NextReader == Predict

SpecReader == InitReader /\ [][NextReader]_vars

\* the calls repeated on one reader
RepeatQueries ==
    { [question |-> "q", top_k |-> {},
       predictions |-> <<[id |-> "d1", no_answer_gap |-> 2,
                          prediction |-> <<Span("A", 9, 4, 6, 2), NoAnswer(8)>>]>>],
      [question |-> "q", top_k |-> {1},
       predictions |-> <<[id |-> "d1", no_answer_gap |-> -1,
                          prediction |-> <<Span("C", -3, 1, 2, 0), Span("D", -5, 3, 4, 1)>>],
                         [id |-> "d2", no_answer_gap |-> -3,
                          prediction |-> <<NoAnswer(8), Span("B", 7, 2, 5, 0)>>]>>],
      [question |-> "r", top_k |-> {},
       predictions |-> <<[id |-> "d1", no_answer_gap |-> -1,
                          prediction |-> <<Span("C", -3, 1, 2, 0), Span("D", -5, 3, 4, 1)>>]>>],
      [question |-> "q", top_k |-> {}, predictions |-> <<>>] }

InitRepeat ==
    /\ document = {}
    /\ tag = {}
    /\ document_tag = {}
    /\ flushed = {}
    /\ pending = <<>>
    /\ calls = <<>>
    /\ pc = [t \in Threads |-> "idle"]
    /\ todo = [t \in Threads |-> <<>>]
    /\ cur = [t \in Threads |-> 0]
    /\ result = NoResult
    /\ before = storeVars
    /\ \E b \in NoAnsBoosts, k \in TopKPerCandidates : reader = FARMReaderInit(b, k)
    /\ query = [question |-> "q", predictions |-> <<>>, top_k |-> {}]
    /\ prediction = NotCalled
    /\ history = <<>>

NextRepeat == \E q \in RepeatQueries : PredictCall(q)

SpecRepeat == InitRepeat /\ [][NextRepeat]_vars

InitTransformers ==
    /\ document = {}
    /\ tag = {}
    /\ document_tag = {}
    /\ flushed = {}
    /\ pending = <<>>
    /\ calls = <<>>
    /\ pc = [t \in Threads |-> "idle"]
    /\ todo = [t \in Threads |-> <<>>]
    /\ cur = [t \in Threads |-> 0]
    /\ result = NoResult
    /\ before = storeVars
    /\ \E w \in ContextWindowSizes, n \in NBestPerPassages :
          reader = TransformersReaderInit(w, n)
    /\ \E docs \in TransformersInputs(reader.n_best_per_passage), top_k \in TransformersTopKs :
          query = [question |-> "q", documents |-> docs, top_k |-> top_k]
    /\ prediction = NotCalled
    /\ history = <<>>

NextTransformers == TransformersPredict

SpecTransformers == InitTransformers /\ [][NextTransformers]_vars

----------------------------------------------------------------------------
(* Properties of the document store *)

\* the rows the store holds once the session is flushed
AllRows == Flush(pending, Visible)

\* the ids of the documents that have, for every entry of the mapping, a tag
\* whose value is the value requested for that entry
MatchingIds(tags) ==
    { d.id : d \in { x \in Visible :
                       \A k \in DOMAIN tags : \E t \in TagsOf(x.id) : t.value = tags[k] } }

\* C1: get_document_ids_by_tags with a non-empty mapping returns exactly the ids
\* of the documents that have, for every requested entry, at least one tag whose
\* value equals the value requested for that entry.
C1_TagFilterExact ==
    (result.op = "get_document_ids_by_tags" /\ result.kind = "return")
        => SeqToSet(Val(result)) = MatchingIds(Args(result))

\* C2: write_documents is all-or-nothing per batch: no record of a call that
\* failed part-way is ever committed, whatever operations follow.
C2_FailedBatchNeverCommitted ==
    \A r \in document : r.call # 0 => ~calls[r.call].failed

\* C3: with concurrent write_documents calls on one store, the committed rows
\* never hold only a proper, non-empty part of the batch of a call (here: of a
\* call whose records all have a text, so that the call itself cannot fail).
C3_ConcurrentBatchesWhole ==
    \A c \in DOMAIN calls :
        (\A i \in DOMAIN calls[c].batch : HasText(calls[c].batch[i]))
            => Cardinality({r \in document : r.call = c}) \in {0, Len(calls[c].batch)}

\* C4: a document written with a non-empty tags field is found by
\* get_document_ids_by_tags called with that document's tags.
C4_WrittenTagsAreFound ==
    \A r \in document :
        (r.call # 0 /\ ~calls[r.call].failed /\ "tags" \in DOMAIN r.rec)
            => /\ GetDocumentIdsByTagsResult(r.rec["tags"]).kind = "return"
               /\ r.id \in SeqToSet(Val(GetDocumentIdsByTagsResult(r.rec["tags"])))

\* the supplied meta mapping extended with every field that is not text, meta or tags
ExpectedMeta(rec) ==
    LET supplied == IF "meta" \in DOMAIN rec THEN rec["meta"] ELSE EmptyDict
        extras   == (DOMAIN rec) \ {"text", "meta", "tags"}
    IN  [k \in (DOMAIN supplied) \cup extras |-> IF k \in extras THEN rec[k] ELSE supplied[k]]

\* the documents the last operation read back
ReadBack ==
    IF result.op = "get_document_by_id" /\ result.kind = "return" THEN {Val(result)}
    ELSE IF result.op = "get_all_documents" THEN SeqToSet(Val(result))
    ELSE {}

RowOf(id) == CHOOSE r \in AllRows : r.id = id

\* C5: every record written by write_documents is read back with meta equal to
\* the supplied meta extended with the record's fields other than text, meta and
\* tags; text and tags are not keys of meta.
C5_MetaRoundTrip ==
    \A d \in ReadBack :
        RowOf(d.id).call # 0
            => /\ d.meta = ExpectedMeta(RowOf(d.id).rec)
               /\ "text" \notin DOMAIN d.meta
               /\ "tags" \notin DOMAIN d.meta

C5_Witness ==
    \E d \in ReadBack :
        /\ RowOf(d.id).rec = RecAuthor
        /\ d.meta = [author |-> "a"]
        /\ \E e \in ReadBack : RowOf(e.id).rec = RecTagged

\* C6: get_document_ids_by_tags with an empty mapping fails with an error and
\* leaves the store as it was.
C6_EmptyTagsFail ==
    (result.op = "get_document_ids_by_tags" /\ Args(result) = EmptyDict)
        => (result.kind = "raise" /\ storeVars = before)

C6_Witness ==
    /\ result.op = "get_document_ids_by_tags"
    /\ Args(result) = EmptyDict
    /\ result.kind = "raise"
    /\ document # {}
    /\ pending # <<>>

\* C7: get_document_by_id with an id no stored document has returns the absent
\* result; it does not raise.
C7_MissingIdReturnsAbsent ==
    (result.op = "get_document_by_id" /\ QueryGet(Args(result)) = {})
        => (result.kind = "return" /\ Val(result) = "None")

UniqueIds == \A r1, r2 \in AllRows : r1.id = r2.id => r1 = r2

\* what get_document_by_id(i) returns now, it returns after the step
StableStep ==
    LET now   == Flush(pending, Visible)
        later == Flush(pending', Visible')
    IN  \A i \in 1..NextId(now) :
            LET a == GetDocumentByIdIn(now, i)
                b == GetDocumentByIdIn(later, i)
            IN  a.kind = "return"
                    => /\ b.kind = "return"
                       /\ Val(b).text = Val(a).text
                       /\ Val(b).meta = Val(a).meta

\* C8: two distinct stored documents never have the same id, and once
\* get_document_by_id(i) returns a document, it returns the same text and meta
\* for i in every later state.
C8_IdentityUniqueAndStable == [](UniqueIds) /\ [][StableStep]_vars

C8_Witness ==
    /\ result.op = "get_document_by_id"
    /\ result.kind = "return"
    /\ RowOf(Args(result)).call = 1
    /\ Len(calls) = 2
    /\ \E r \in document : r.call = 2

\* C9: query_by_embedding fails with the unsupported-operation error for every
\* argument and in every store state, and leaves the store as it was.
C9_QueryByEmbeddingUnsupported ==
    result.op = "query_by_embedding"
        => /\ result.kind = "raise"
           /\ Val(result) = "NotImplementedError"
           /\ storeVars = before

C9_Witness ==
    /\ result.op = "query_by_embedding"
    /\ result.kind = "raise"
    /\ document # {}
    /\ pending # <<>>

----------------------------------------------------------------------------
(* Properties of FARMReader.predict *)

QueryGaps == { query.predictions[i].no_answer_gap : i \in DOMAIN query.predictions }

\* C10: for a non-empty document set predict returns as no_ans_gap the maximum
\* of the documents' no_answer_gap values, and the synthesized no-answer entry
\* has score best_score_answer - max_no_ans_gap, whatever the signs of the gaps.
C10_NoAnsGapIsMaxAndScoreFormula ==
    (prediction # NotCalled /\ Len(query.predictions) > 0)
        => /\ prediction.kind = "return"
           /\ prediction.value.no_ans_gap \in QueryGaps
           /\ \A g \in QueryGaps : g <= prediction.value.no_ans_gap
           /\ prediction.internal.no_ans_prediction.score =
                  prediction.internal.best_score_answer - prediction.value.no_ans_gap
           /\ \A i \in DOMAIN prediction.value.answers :
                  prediction.value.answers[i].answer = "None"
                      => prediction.value.answers[i].score =
                             prediction.internal.best_score_answer - prediction.value.no_ans_gap

C10_Witness ==
    /\ prediction # NotCalled
    /\ Len(query.predictions) = 2
    /\ query.predictions[1].no_answer_gap = -1
    /\ query.predictions[2].no_answer_gap = -3
    /\ prediction.kind = "return"
    /\ prediction.value.no_ans_gap = -1
    /\ \E i \in DOMAIN prediction.value.answers :
          /\ prediction.value.answers[i].answer = "None"
          /\ prediction.value.answers[i].score = 10

\* the answers of the result predict returned
Answers == prediction.value.answers

\* positions of the entries that belong to a document, and of the no-answer entry
GenuineAt == {i \in DOMAIN Answers : Answers[i].document_id # "None"}

NoAnswerAt == {i \in DOMAIN Answers : Answers[i].document_id = "None"}

\* C11: with no-answer reporting enabled, no truncation and at least one genuine
\* answer kept, a positive max_no_ans_gap ranks the highest-scoring genuine
\* answer above the no-answer entry, and a negative max_no_ans_gap ranks the
\* no-answer entry above every genuine answer.
C11_GapSignPlacesNoAnswer ==
    (/\ prediction.kind = "return"
     /\ reader.return_no_answers
     /\ query.top_k = {}
     /\ GenuineAt # {})
        => LET best == Max({Answers[i].score : i \in GenuineAt})
               gap  == prediction.value.no_ans_gap
           IN  /\ gap > 0 => \E i \in GenuineAt, n \in NoAnswerAt :
                                 i < n /\ Answers[i].score = best
               /\ gap < 0 => \A i \in GenuineAt, n \in NoAnswerAt : n < i

\* the merged pool before sorting: documents in input order, candidates in
\* adapter order, the no-answer entry last
Pool == prediction.internal.pool

\* what tells two entries of one pool apart
EntryKey(x) == <<x.document_id, x.answer>>

\* C12: the returned answers are in non-increasing order of probability, and
\* two entries of equal probability keep the relative order they had in the
\* merged pool before sorting.
C12_SortedStableByProbability ==
    prediction.kind = "return"
        => \A i, j \in DOMAIN Answers :
              i < j =>
                 /\ Answers[i].probability >= Answers[j].probability
                 /\ Answers[i].probability = Answers[j].probability
                       => \E p, q \in DOMAIN Pool :
                             /\ p < q
                             /\ EntryKey(Pool[p]) = EntryKey(Answers[i])
                             /\ EntryKey(Pool[q]) = EntryKey(Answers[j])

\* a genuine answer and the no-answer entry tie, and so do two genuine answers
\* of different documents
C12_Witness ==
    /\ prediction.kind = "return"
    /\ \E i \in GenuineAt, n \in NoAnswerAt :
          i < n /\ Answers[i].probability = Answers[n].probability
    /\ \E i, j \in GenuineAt :
          /\ i < j
          /\ Answers[i].probability = Answers[j].probability
          /\ Answers[i].document_id # Answers[j].document_id

\* C13: for a non-empty document set predict returns the first
\* min(top_k, size of pool) entries of the sorted merged pool, the whole sorted
\* pool when top_k is unspecified, and an empty list without an error when
\* top_k = 0.
C13_TruncatedToTopK ==
    (prediction # NotCalled /\ Len(query.predictions) > 0)
        => /\ prediction.kind = "return"
           /\ LET sorted == SortedByProbability(Pool, <<>>)
              IN  IF query.top_k = {}
                  THEN Answers = sorted
                  ELSE LET k == CHOOSE x \in query.top_k : TRUE
                       IN  /\ Len(Answers) = Min({k, Len(Pool)})
                           /\ Answers = SubSeq(sorted, 1, Len(Answers))
           /\ query.top_k = {0} => Answers = <<>>

C13_Witness ==
    /\ prediction.kind = "return"
    /\ query.top_k = {1}
    /\ Len(Pool) >= 3
    /\ Len(Answers) = 1
    /\ Answers[1].probability > Pool[1].probability

\* C14: predict called with an empty documents sequence fails with an error
\* and returns no result, for every top_k and with or without no-answer
\* reporting.
C14_EmptyDocumentsFail ==
    (prediction # NotCalled /\ query.predictions = <<>>)
        => /\ prediction.kind = "raise"
           /\ DOMAIN prediction = {"kind", "value"}
           /\ prediction.value = "ValueError"

C14_Witness ==
    /\ query.predictions = <<>>
    /\ reader.return_no_answers
    /\ query.top_k = {0}
    /\ prediction.kind = "raise"

\* two outcomes a caller cannot tell apart
SameOutcome(a, b) ==
    /\ a.kind = b.kind
    /\ a.kind = "return" => a.value = b.value

KeptScores == { Pool[i].score : i \in {p \in DOMAIN Pool : Pool[p].document_id # "None"} }

\* C18: the best_score_answer used for the no-answer calibration is the maximum
\* raw score over the kept candidates of all documents, also when every score
\* is negative.
C18_BestScoreIsMaxKeptScore ==
    (prediction.kind = "return" /\ KeptScores # {})
        => prediction.internal.best_score_answer = Max(KeptScores)

\* a document's no-answer placeholder as the claim describes it: a zero-length
\* offset pair at 0 together with the sentinel answer text
Placeholder(c) ==
    c.offset_answer_start = 0 /\ c.offset_answer_end = 0 /\ c.answer = "no_answer"

AnswerTexts(entries) == [i \in DOMAIN entries |-> entries[i].answer]

\* C19: a candidate of a document is discarded exactly when it is the
\* document's no-answer placeholder; every other candidate is kept, up to the
\* per-document cap, and no returned entry of a document carries the sentinel
\* answer.
C19_OnlyPlaceholdersDiscarded ==
    prediction.kind = "return"
        => /\ \A i \in DOMAIN query.predictions :
                 LET pred == query.predictions[i]
                     IsSpan(c) == ~Placeholder(c)
                     OfDocument(x) == x.document_id = pred.id
                 IN  AnswerTexts(SelectSeq(Pool, OfDocument))
                        = AnswerTexts(Take(SelectSeq(pred.prediction, IsSpan),
                                           reader.top_k_per_candidate))
           /\ \A i \in GenuineAt : Answers[i].answer # "no_answer"

\* how many candidates of document i predict takes for genuine spans: those
\* _check_no_answer does not report as a placeholder
GenuineCount(i) ==
    Cardinality({ j \in DOMAIN query.predictions[i].prediction :
                    ~CheckNoAnswer(query.predictions[i].prediction[j]) })

\* C20: for every input document the returned answers hold at most
\* top_k_per_candidate entries with its id, all among the first
\* top_k_per_candidate genuine candidates of the document in adapter order;
\* before truncation they are exactly those, whatever the global top_k is.
C20_PerDocumentCap ==
    prediction.kind = "return"
        => \A i \in DOMAIN query.predictions :
              LET pred == query.predictions[i]
                  cap == reader.top_k_per_candidate
                  Genuine(c) == ~CheckNoAnswer(c)
                  OfDocument(x) == x.document_id = pred.id
                  genuine == SelectSeq(pred.prediction, Genuine)
                  first == SubSeq(genuine, 1, Min({cap, Len(genuine)}))
                  merged == SelectSeq(Pool, OfDocument)
                  returned == SelectSeq(Answers, OfDocument)
              IN  /\ Len(returned) <= cap
                  /\ Len(merged) = Len(first)
                  /\ \A k \in DOMAIN merged :
                        /\ merged[k].answer = first[k].answer
                        /\ merged[k].score = first[k].score
                        /\ merged[k].offset_start_in_doc = first[k].offset_answer_start
                  /\ \A k \in DOMAIN returned :
                        \E f \in DOMAIN first : returned[k].answer = first[f].answer
                  /\ query.top_k = {} => Len(returned) = Len(first)

\* a document with more genuine candidates than the cap, next to a second
\* document, with a global top_k above the cap
C20_Witness ==
    /\ prediction.kind = "return"
    /\ Len(query.predictions) = 2
    /\ GenuineCount(1) > reader.top_k_per_candidate
    /\ reader.top_k_per_candidate = 2
    /\ GenuineCount(2) = 1
    /\ query.top_k = {3}
    /\ Len(Answers) = 3
    /\ Cardinality({k \in DOMAIN Answers : Answers[k].document_id = "d1"}) = 2

\* the entries of the merged pool with a null answer
NullAnswersInPool == {p \in DOMAIN Pool : Pool[p].answer = "None"}

\* C21: the merged pool, before truncation, holds exactly one synthesized
\* no-answer entry (null answer, null document_id) when the reader was
\* constructed with a no_ans_boost that is not None, and no null-answer entry
\* when it was constructed with no_ans_boost = None.
C21_OneNoAnswerEntryIffEnabled ==
    prediction.kind = "return"
        => \A b \in NoAnsBoosts, k \in TopKPerCandidates :
              reader = FARMReaderInit(b, k)
                 => /\ b # {} => /\ Cardinality(NullAnswersInPool) = 1
                                 /\ \A p \in NullAnswersInPool :
                                       /\ Pool[p].document_id = "None"
                                       /\ Pool[p] = prediction.internal.no_ans_prediction
                                       /\ p = Len(Pool)
                    /\ b = {} => NullAnswersInPool = {}

C21_Witness ==
    /\ prediction.kind = "return"
    /\ reader = FARMReaderInit({0}, 2)
    /\ Len(query.predictions) = 2
    /\ Len(Pool) = 4
    /\ Cardinality(NullAnswersInPool) = 1
    /\ query.top_k = {1}
    /\ NoAnswerAt = {}

----------------------------------------------------------------------------
(* Properties of TransformersReader.predict *)

\* C16: for every document text, start, end and context_window_size the
\* computed context_start and context_end both lie in [0, len(text)].
C16_ContextWindowInsideText ==
    prediction.kind = "return"
        => \A i \in DOMAIN prediction.internal.windows :
              LET w == prediction.internal.windows[i]
              IN  /\ 0 <= w.context_start /\ w.context_start <= Len(w.text)
                  /\ 0 <= w.context_end /\ w.context_end <= Len(w.text)

\* what TransformersReader.predict returns, with its default parameters, for
\* each of the document lists of the model
TransformersResults ==
    { TransformersPredictResult(TransformersReaderInit(30, 2), "q", docs, {}).value :
        docs \in TransformersInputs(2) }

\* C17: the results of FARMReader.predict and of TransformersReader.predict
\* have the same top-level fields, and every answer entry of either reader,
\* the synthesized no-answer entry included, has the same fields.
C17_SameOutputShape ==
    prediction.kind = "return"
        => /\ \A i, j \in DOMAIN Answers : DOMAIN Answers[i] = DOMAIN Answers[j]
           /\ \A t \in TransformersResults :
                 /\ DOMAIN prediction.value = DOMAIN t
                 /\ \A i \in DOMAIN Answers, j \in DOMAIN t.answers :
                       DOMAIN Answers[i] = DOMAIN t.answers[j]

\* the predictions of all documents that have a non-empty answer text, as
\* <<document index, prediction index>>
AnsweredAt ==
    { ij \in UNION { {<<i, j>> : j \in DOMAIN query.documents[i].predictions} :
                       i \in DOMAIN query.documents } :
        query.documents[ij[1]].predictions[ij[2]].answer # "" }

\* the answer entry that stands for a prediction
EntryOf(a, ij) ==
    LET doc == query.documents[ij[1]]
        pred == doc.predictions[ij[2]]
    IN  /\ a.document_id = doc.id
        /\ a.answer = pred.answer
        /\ a.probability = pred.score
        /\ a.offset_start = pred.start
        /\ a.offset_end = pred.end

\* C22: TransformersReader.predict returns no answer with an empty text and no
\* synthesized no-answer entry; it returns the remaining candidates of all
\* documents in non-increasing order of probability, cut to the first top_k.
C22_TransformersSkipSortTruncate ==
    prediction.kind = "return"
        => /\ DOMAIN prediction.value = {"question", "answers"}
           /\ \A i \in DOMAIN Answers :
                 /\ Answers[i].answer \notin {"", "None"}
                 /\ Answers[i].document_id # "None"
                 /\ \E ij \in AnsweredAt : EntryOf(Answers[i], ij)
           /\ \A i, j \in DOMAIN Answers :
                 i < j => /\ Answers[i].probability >= Answers[j].probability
                          /\ EntryKey(Answers[i]) # EntryKey(Answers[j])
           /\ Len(Answers) = IF query.top_k = {} THEN Cardinality(AnsweredAt)
                             ELSE Min({CHOOSE k \in query.top_k : TRUE,
                                       Cardinality(AnsweredAt)})
           /\ \A ij \in AnsweredAt :
                 \/ \E i \in DOMAIN Answers : EntryOf(Answers[i], ij)
                 \/ \A i \in DOMAIN Answers :
                       Answers[i].probability
                          >= query.documents[ij[1]].predictions[ij[2]].score

\* an empty answer is skipped, the best answer comes from the second document,
\* and top_k cuts the others off
C22_Witness ==
    /\ prediction.kind = "return"
    /\ Len(query.documents) = 2
    /\ query.documents[1].predictions[1].answer = ""
    /\ Cardinality(AnsweredAt) = 3
    /\ query.top_k = {1}
    /\ Len(Answers) = 1
    /\ Answers[1].document_id = "d2"
    /\ Answers[1].probability > Pool[1].probability

====
